---- MODULE Spec2Model ----
(***************************************************************************)
(* Model of the cursor editor of src/cursor-editor/src/App.tsx: the layer  *)
(* stack of each cursor profile, the upload handler, the compositor's      *)
(* frame selection and the export loop.                                    *)
(*                                                                         *)
(* Time is counted in ticks of 1/3 ms, so that the delay of a static image *)
(* (100 ms = 300 ticks), of a GIF frame (d ms = 3d ticks) and of an ANI    *)
(* frame (rate * 1000/60 ms = 50 * rate ticks) are all whole numbers.      *)
(***************************************************************************)
EXTENDS Integers, Sequences, FiniteSets, Bags, TLC

\* ---- bounds of the model ----
MaxLayers == 2
MaxIds == 2
MaxUploads == 2
MaxFrames == 3
MaxTime == 1500
MaxExportLayers == 2

\* ---- program constants ----
TicksPerMs == 3
StaticDelayMs == 100
DefaultOutputSize == 32
DefaultExportDelayMs == 100

NoId == "none"
NoError == "null"

\* The cursor roles of the model: one with a top-left default hotspot and
\* one with a centred default hotspot.
CURSOR_TYPES == {"normal", "text"}

defaultHotspotOf(type) == IF type = "text" THEN "center" ELSE "tl"

DEFAULT_TRANSFORM == [x |-> 0, y |-> 0, scale |-> 1, rotation |-> 0, opacity |-> 1]

createBaseLayer ==
  [id |-> "base", name |-> "Base Layer", frames |-> <<>>,
   config |-> DEFAULT_TRANSFORM, visible |-> TRUE, locked |-> FALSE, isBase |-> TRUE]

DEFAULT_CURSOR_STATE ==
  [layers |-> <<createBaseLayer>>, hotspot |-> [x |-> 0, y |-> 0],
   outputSize |-> DefaultOutputSize, fileName |-> ""]

\* ---- sequence helpers (Array.prototype.*) ----
RECURSIVE SumDelay(_)
SumDelay(frames) ==
  IF frames = <<>> THEN 0 ELSE Head(frames).delay + SumDelay(Tail(frames))

Filter(s, keep(_)) == SelectSeq(s, keep)

findIndex(layers, layerId) ==
  IF \E i \in 1..Len(layers) : layers[i].id = layerId
  THEN CHOOSE i \in 1..Len(layers) :
         /\ layers[i].id = layerId
         /\ \A j \in 1..(i-1) : layers[j].id # layerId
  ELSE 0

Max(a, b) == IF a >= b THEN a ELSE b

VARIABLES
  activeType,       \* useState activeType
  cursorSet,        \* useState cursorSet: role -> CursorState
  selectedLayerId,  \* useState selectedLayerId
  isProcessing,     \* useState isProcessing
  error,            \* useState error
  parseGIF,         \* window.parseGIF is defined (decoder script has loaded)
  nextId,           \* number of layer ids drawn from Math.random so far
  uploads,          \* bag of handleUpload invocations suspended at await parseFile
  canvas,           \* what the preview loop last drew on the main canvas
  exp               \* the download() invocation in progress, if any

vars == <<activeType, cursorSet, selectedLayerId, isProcessing, error,
          parseGIF, nextId, uploads, canvas, exp>>

activeData == cursorSet[activeType]
activeLayers == activeData.layers

\* The component renders activeLayers[0].frames; with an empty stack the
\* render throws and no control is left to operate.
Mounted == activeLayers # <<>>

selectedLayer ==
  IF \E i \in 1..Len(activeLayers) : activeLayers[i].id = selectedLayerId
  THEN activeLayers[findIndex(activeLayers, selectedLayerId)]
  ELSE activeLayers[1]

\* ---- modifiers ----
\* updateCursorState, with the role captured by the calling closure.
updateCursorState(set, type, newValues) ==
  [set EXCEPT ![type] = [k \in DOMAIN set[type] |->
      IF k \in DOMAIN newValues THEN newValues[k] ELSE set[type][k]]]

updateLayerInAll(layers, layerId, updates) ==
  [i \in 1..Len(layers) |->
     [k \in DOMAIN layers[i] |->
        IF k \in DOMAIN updates THEN updates[k] ELSE layers[i][k]]]

updateLayerIn(layers, layerId, updates) ==
  [i \in 1..Len(layers) |->
     IF layers[i].id = layerId
     THEN [k \in DOMAIN layers[i] |->
             IF k \in DOMAIN updates THEN updates[k] ELSE layers[i][k]]
     ELSE layers[i]]

updateLayer(set, type, layerId, updates) ==
  updateCursorState(set, type,
     [layers |-> updateLayerIn(set[type].layers, layerId, updates)])

\* ---- layer stack operations ----
getDefaultHotspot(type, size) ==
  IF defaultHotspotOf(type) = "center"
  THEN [x |-> size \div 2, y |-> size \div 2]
  ELSE [x |-> 0, y |-> 0]

\* Uploads still being decoded that will append a layer to `type`.
RECURSIVE CountIn(_, _)
CountIn(bag, S) ==
  IF S = {} THEN 0
  ELSE LET u == CHOOSE v \in S : TRUE IN CopiesIn(u, bag) + CountIn(bag, S \ {u})

PendingAdds(type) ==
  CountIn(uploads, {u \in BagToSet(uploads) : u.replaceId = NoId /\ u.type = type})

PendingIds ==
  CountIn(uploads, {u \in BagToSet(uploads) : u.replaceId = NoId})

\* Room for one more layer within the bounds of the model.
RoomFor(type) ==
  /\ Len(cursorSet[type].layers) + PendingAdds(type) < MaxLayers
  /\ nextId + PendingIds < MaxIds

newLayerId == ToString(nextId + 1)

addLayer(set, type, newLayer) ==
  updateCursorState(set, type, [layers |-> Append(set[type].layers, newLayer)])

removeLayerFilter(layers, layerId) ==
  LET keep(l) == l.id # layerId IN Filter(layers, keep)

\* removeLayer (lines 169-172): the filter, and the selection fallback that
\* reads the stack of the current render.
removeLayer(layerId) ==
  /\ cursorSet' = updateCursorState(cursorSet, activeType,
                    [layers |-> removeLayerFilter(activeLayers, layerId)])
  /\ selectedLayerId' =
       IF selectedLayerId = layerId
       THEN (IF activeLayers # <<>> THEN activeLayers[1].id ELSE "base")
       ELSE selectedLayerId

swap(layers, i, j) ==
  [k \in 1..Len(layers) |->
     IF k = i THEN layers[j] ELSE IF k = j THEN layers[i] ELSE layers[k]]

\* moveLayer (lines 174-185); indices here are 1-based.
moveLayerResultReversed(layers, layerId, direction) ==
  LET index == findIndex(layers, layerId) IN
  IF index = 0 THEN layers
  ELSE IF direction = "down" /\ index < Len(layers) THEN swap(layers, index, index + 1)
  ELSE IF direction = "up" /\ index > 1 THEN swap(layers, index, index - 1)
  ELSE layers

moveLayerResult(layers, layerId, direction) ==
  LET index == findIndex(layers, layerId) IN
  IF index = 0 THEN layers
  ELSE IF direction = "up" /\ index < Len(layers) THEN swap(layers, index, index + 1)
  ELSE IF direction = "down" /\ index > 1 THEN swap(layers, index, index - 1)
  ELSE layers

\* ---- user controls ----
SetActiveType(type) ==
  /\ Mounted
  /\ activeType' = type
  /\ UNCHANGED <<cursorSet, selectedLayerId, isProcessing, error, parseGIF,
                 nextId, uploads, canvas, exp>>

SelectLayer(i) ==
  /\ Mounted
  /\ i \in 1..Len(activeLayers)
  /\ selectedLayerId' = activeLayers[i].id
  /\ UNCHANGED <<activeType, cursorSet, isProcessing, error, parseGIF,
                 nextId, uploads, canvas, exp>>

\* "Add Layer" button of the second layer panel (line 1396).
AddEmptyLayer ==
  /\ Mounted
  /\ RoomFor(activeType)
  /\ LET newLayer == [id |-> newLayerId, name |-> "Layer", frames |-> <<>>,
                      config |-> DEFAULT_TRANSFORM, visible |-> TRUE,
                      locked |-> FALSE, isBase |-> FALSE]
     IN /\ cursorSet' = addLayer(cursorSet, activeType, newLayer)
        /\ selectedLayerId' = newLayer.id
  /\ nextId' = nextId + 1
  /\ UNCHANGED <<activeType, isProcessing, error, parseGIF, uploads, canvas, exp>>

\* Remove button of the first layer panel (lines 663-667): shown for
\* overlay layers only.
RemoveButtonGuarded(i) ==
  /\ Mounted
  /\ i \in 1..Len(activeLayers)
  /\ ~activeLayers[i].isBase
  /\ removeLayer(activeLayers[i].id)
  /\ UNCHANGED <<activeType, isProcessing, error, parseGIF, nextId, uploads,
                 canvas, exp>>

\* Remove button of the second layer panel (line 1415): shown on every row.
RemoveButtonRow(i) ==
  /\ Mounted
  /\ i \in 1..Len(activeLayers)
  /\ removeLayer(activeLayers[i].id)
  /\ UNCHANGED <<activeType, isProcessing, error, parseGIF, nextId, uploads,
                 canvas, exp>>

\* Arrow buttons of the second layer panel (lines 1432-1433).
MoveLayer(direction) ==
  /\ Mounted
  /\ cursorSet' = updateCursorState(cursorSet, activeType,
        [layers |-> moveLayerResult(activeLayers, selectedLayer.id, direction)])
  /\ UNCHANGED <<activeType, selectedLayerId, isProcessing, error, parseGIF,
                 nextId, uploads, canvas, exp>>

toggleLayerVisibility(i) ==
  /\ Mounted
  /\ i \in 1..Len(activeLayers)
  /\ cursorSet' = updateLayer(cursorSet, activeType, activeLayers[i].id,
                              [visible |-> ~activeLayers[i].visible])
  /\ UNCHANGED <<activeType, selectedLayerId, isProcessing, error, parseGIF,
                 nextId, uploads, canvas, exp>>

\* The decoder script of the effect at lines 200-206 finishes loading.
ScriptLoaded ==
  /\ ~parseGIF
  /\ parseGIF' = TRUE
  /\ UNCHANGED <<activeType, cursorSet, selectedLayerId, isProcessing, error,
                 nextId, uploads, canvas, exp>>

\* ---- files offered to the upload controls ----
\* A file is described by what the decoders read from it: its extension,
\* whether bytes 0..3 spell RIFF, whether the chunk walk reads past the end
\* of the buffer (DataView throws a RangeError), the anih rate, the rate
\* entries, the icon sub-chunks, the frames the GIF decoder returns, and the
\* picture the browser's image loader makes of the bytes (decodes = FALSE:
\* img.onload never fires).
Picture(w, h) == [width |-> w, height |-> h, decodes |-> TRUE]
Undecodable == [width |-> 0, height |-> 0, decodes |-> FALSE]

StaticFile(name, ext, pic) ==
  [name |-> name, ext |-> ext, riff |-> FALSE, walk |-> "ok", defaultRate |-> 60,
   rates |-> <<>>, icons |-> <<>>, gif |-> <<>>, picture |-> pic]

GifFile(name, gifFrames) ==
  [name |-> name, ext |-> "gif", riff |-> FALSE, walk |-> "ok", defaultRate |-> 60,
   rates |-> <<>>, icons |-> <<>>, gif |-> gifFrames, picture |-> Picture(32, 32)]

AniFile(name, riff, walk, defaultRate, rates, icons) ==
  [name |-> name, ext |-> "ani", riff |-> riff, walk |-> walk,
   defaultRate |-> defaultRate, rates |-> rates, icons |-> icons, gif |-> <<>>,
   picture |-> Undecodable]

Files ==
  { StaticFile("a.png", "png", Picture(48, 40)),
    StaticFile("broken.png", "png", Undecodable),
    GifFile("g.gif", <<[width |-> 32, height |-> 32, delay |-> 50],
                       [width |-> 32, height |-> 32, delay |-> 100]>>),
    AniFile("c.ani", TRUE, "ok", 10, <<6>>, <<Picture(32, 32), Picture(32, 32)>>),
    AniFile("noicons.ani", TRUE, "ok", 60, <<>>, <<>>),
    AniFile("notriff.ani", FALSE, "ok", 60, <<>>, <<>>),
    AniFile("cut.ani", TRUE, "RangeError", 60, <<>>, <<Picture(32, 32)>>) }

\* ---- decoders ----
Thrown(message) == [kind |-> "throw", message |-> message, frames |-> <<>>]
Never == [kind |-> "never", message |-> "", frames |-> <<>>]
Loaded(frames) == [kind |-> "frames", message |-> "", frames |-> frames]

Image(file, n, pic) ==
  [src |-> file.name, n |-> n, width |-> pic.width, height |-> pic.height]

\* rate * (1000/60) ms, in ticks.
aniDelay(rate) == rate * 50

\* parseAniFile (lines 208-245).
parseAniFile(file) ==
  IF ~file.riff THEN Thrown("Invalid ANI")
  ELSE IF file.walk = "RangeError" THEN Thrown("Offset is outside the bounds of the DataView")
  ELSE IF \E i \in 1..Len(file.icons) : ~file.icons[i].decodes THEN Never
  ELSE Loaded([i \in 1..Len(file.icons) |->
                 [image |-> Image(file, i, file.icons[i]),
                  delay |-> aniDelay(IF i <= Len(file.rates) THEN file.rates[i]
                                     ELSE file.defaultRate)]])

\* parseFile (lines 247-292); gifPath is the value of
\* ext === 'gif' && window.parseGIF when the handler called it.
parseFile(file, gifPath) ==
  IF gifPath
  THEN Loaded([i \in 1..Len(file.gif) |->
                 [image |-> Image(file, i, file.gif[i]),
                  delay |-> file.gif[i].delay * TicksPerMs]])
  ELSE IF file.ext = "ani" THEN parseAniFile(file)
  ELSE IF ~file.picture.decodes THEN Never
  ELSE Loaded(<<[image |-> Image(file, 1, file.picture),
                 delay |-> StaticDelayMs * TicksPerMs]>>)

\* ---- handleUpload (lines 294-324) ----
\* The part before `await parseFile(file)`.  The record keeps what the
\* closure of this render holds: activeType, the isBase flag of the target
\* in activeLayers, and whether activeData.fileName was empty.
handleUploadStart(file, replaceId) ==
  /\ Mounted
  /\ BagCardinality(uploads) < MaxUploads
  /\ replaceId = NoId => RoomFor(activeType)
  /\ isProcessing' = TRUE
  /\ error' = NoError
  /\ uploads' = uploads (+) SetToBag({
       [file |-> file, replaceId |-> replaceId, type |-> activeType,
        gifPath |-> (file.ext = "gif" /\ parseGIF),
        isBase |-> (replaceId # NoId /\ findIndex(activeLayers, replaceId) # 0
                    /\ activeLayers[findIndex(activeLayers, replaceId)].isBase),
        noFileName |-> (activeData.fileName = "")]})
  /\ UNCHANGED <<activeType, cursorSet, selectedLayerId, parseGIF, nextId,
                 canvas, exp>>

\* File input of the "Add" controls (lines 625, 1381).
UploadAdd(file) == handleUploadStart(file, NoId)

\* File input of the properties panel (lines 697, 1431).
UploadReplace(file) == handleUploadStart(file, selectedLayer.id)

FailedToLoad(message) == "Failed to load file. " \o message

\* What the replace branch (lines 303-309) makes of the profile map; the
\* second component is the message of the TypeError thrown by frames[0].image
\* when the decoded list is empty.
replaceBranchActiveProfile(set, u, frames) ==
  LET set1 == updateLayer(set, activeType, u.replaceId,
                          [frames |-> frames, name |-> u.file.name]) IN
  IF u.isBase /\ u.noFileName
  THEN IF frames = <<>>
       THEN <<set1, "Cannot read properties of undefined">>
       ELSE LET d == Max(frames[1].image.width, frames[1].image.height)
                newSize == IF d <= 32 THEN 32 ELSE d
            IN <<updateCursorState(set1, activeType,
                    [fileName |-> u.file.name, outputSize |-> newSize,
                     hotspot |-> getDefaultHotspot(activeType, newSize)]), "">>
  ELSE <<set1, "">>

replaceBranch(set, u, frames) ==
  LET set1 == updateLayer(set, u.type, u.replaceId,
                          [frames |-> frames, name |-> u.file.name]) IN
  IF u.isBase /\ u.noFileName
  THEN IF frames = <<>>
       THEN <<set1, "Cannot read properties of undefined">>
       ELSE LET d == Max(frames[1].image.width, frames[1].image.height)
                newSize == IF d <= 32 THEN 32 ELSE d
            IN <<updateCursorState(set1, u.type,
                    [fileName |-> u.file.name, outputSize |-> newSize,
                     hotspot |-> getDefaultHotspot(u.type, newSize)]), "">>
  ELSE <<set1, "">>

\* The continuation after `await parseFile(file)`, through the finally.
handleUploadSettle(u) ==
  /\ BagIn(u, uploads)
  /\ LET res == parseFile(u.file, u.gifPath)
     IN /\ res.kind # "never"
        /\ uploads' = uploads (-) SetToBag({u})
        /\ isProcessing' = FALSE
        /\ IF res.kind = "throw"
           THEN /\ error' = FailedToLoad(res.message)
                /\ UNCHANGED <<cursorSet, selectedLayerId, nextId>>
           ELSE IF u.replaceId # NoId
           THEN LET r == replaceBranch(cursorSet, u, res.frames) IN
                /\ cursorSet' = r[1]
                /\ error' = IF r[2] = "" THEN error ELSE FailedToLoad(r[2])
                /\ UNCHANGED <<selectedLayerId, nextId>>
           ELSE LET newLayer == [id |-> newLayerId, name |-> u.file.name,
                                 frames |-> res.frames, config |-> DEFAULT_TRANSFORM,
                                 visible |-> TRUE, locked |-> FALSE, isBase |-> FALSE]
                IN /\ cursorSet' = addLayer(cursorSet, u.type, newLayer)
                   /\ selectedLayerId' = newLayer.id
                   /\ nextId' = nextId + 1
                   /\ UNCHANGED error
  /\ UNCHANGED <<activeType, parseGIF, canvas, exp>>

\* ---- transform controls ----
\* Values typed into the X position input, after parseFloat.
PositionInputs == {0, 10}

\* X position rows of the properties panels (lines 703, 1424).
SetPosition(v) ==
  /\ Mounted
  /\ cursorSet' = updateLayer(cursorSet, activeType, selectedLayer.id,
        [config |-> [selectedLayer.config EXCEPT !.x = v]])
  /\ UNCHANGED <<activeType, selectedLayerId, isProcessing, error, parseGIF,
                 nextId, uploads, canvas, exp>>

\* ---- the editor ----
NoCanvas == [started |-> FALSE, time |-> 0, ops |-> <<>>]
NoExport == [pc |-> "idle"]

Init ==
  /\ activeType = "normal"
  /\ cursorSet = [t \in CURSOR_TYPES |-> DEFAULT_CURSOR_STATE]
  /\ selectedLayerId = "base"
  /\ isProcessing = FALSE
  /\ error = NoError
  /\ parseGIF = FALSE
  /\ nextId = 0
  /\ uploads = EmptyBag
  /\ canvas = NoCanvas
  /\ exp = NoExport

\* The layer panel and the properties panel.
Next ==
  \/ \E t \in CURSOR_TYPES : SetActiveType(t)
  \/ \E i \in 1..MaxLayers : SelectLayer(i)
  \/ AddEmptyLayer
  \/ \E i \in 1..MaxLayers : RemoveButtonGuarded(i)
  \/ \E i \in 1..MaxLayers : RemoveButtonRow(i)
  \/ \E d \in {"up", "down"} : MoveLayer(d)
  \/ \E i \in 1..MaxLayers : toggleLayerVisibility(i)
  \/ \E v \in PositionInputs : SetPosition(v)

Spec == Init /\ [][Next]_vars

\* The upload controls of the active profile.
NextUpload ==
  \/ \E i \in 1..MaxLayers : SelectLayer(i)
  \/ ScriptLoaded
  \/ \E f \in Files : UploadAdd(f)
  \/ \E f \in Files : UploadReplace(f)
  \/ \E u \in BagToSet(uploads) : handleUploadSettle(u)

SpecUpload == Init /\ [][NextUpload]_vars

\* ---- compositor (lines 327-354) ----
\* Frame selection of drawLayer (lines 329-337), as a 1-based index.  With
\* total = 0 the remainder is NaN, no comparison succeeds and frames[0] stays.
RECURSIVE scanFramesInclusive(_, _, _)
scanFramesInclusive(frames, k, t) ==
  IF k > Len(frames) THEN 1
  ELSE IF t <= frames[k].delay THEN k
  ELSE scanFramesInclusive(frames, k + 1, t - frames[k].delay)

RECURSIVE scanFrames(_, _, _)
scanFrames(frames, k, t) ==
  IF k > Len(frames) THEN 1
  ELSE IF t < frames[k].delay THEN k
  ELSE scanFrames(frames, k + 1, t - frames[k].delay)

activeFrame(frames, time) ==
  IF Len(frames) > 1
  THEN LET total == SumDelay(frames) IN
       IF total = 0 THEN 1 ELSE scanFrames(frames, 1, time % total)
  ELSE 1

\* The transformation matrix of a 2d context, [a c e; b d f], and the calls
\* that change it.  Lengths are in half pixels, so that size/2 and width/2
\* stay integers; angles are the multiples of 90 degrees.
identity == [a |-> 1, b |-> 0, c |-> 0, d |-> 1, e |-> 0, f |-> 0]

translate(m, tx, ty) ==
  [m EXCEPT !.e = m.e + m.a * tx + m.c * ty, !.f = m.f + m.b * tx + m.d * ty]

cosDeg(r) == CASE r % 360 = 0 -> 1 [] r % 360 = 90 -> 0
               [] r % 360 = 180 -> -1 [] r % 360 = 270 -> 0

sinDeg(r) == CASE r % 360 = 0 -> 0 [] r % 360 = 90 -> 1
               [] r % 360 = 180 -> 0 [] r % 360 = 270 -> -1

rotate(m, deg) ==
  [m EXCEPT !.a = m.a * cosDeg(deg) + m.c * sinDeg(deg),
            !.b = m.b * cosDeg(deg) + m.d * sinDeg(deg),
            !.c = m.c * cosDeg(deg) - m.a * sinDeg(deg),
            !.d = m.d * cosDeg(deg) - m.b * sinDeg(deg)]

scale(m, sx, sy) ==
  [m EXCEPT !.a = m.a * sx, !.b = m.b * sx, !.c = m.c * sy, !.d = m.d * sy]

\* Where the matrix puts the point (u, v).
applyTo(m, u, v) ==
  [x |-> m.a * u + m.c * v + m.e, y |-> m.b * u + m.d * v + m.f]

\* Lines 340-343: translate to the canvas centre, translate by the layer's
\* position, rotate, scale.
layerTransformOffsetLast(config, size) ==
  translate(scale(rotate(translate(identity, size, size), config.rotation),
                  config.scale, config.scale),
            2 * config.x, 2 * config.y)

layerTransform(config, size) ==
  scale(rotate(translate(translate(identity, size, size),
                         2 * config.x, 2 * config.y),
               config.rotation),
        config.scale, config.scale)

\* drawLayer: the drawImage call it issues, if any, under the matrix in
\* force; the image is drawn from (-width/2, -height/2), its centre at the
\* origin.
drawLayer(layer, time, size) ==
  IF ~layer.visible \/ Len(layer.frames) = 0 THEN <<>>
  ELSE <<[layer |-> layer.id, image |-> layer.frames[activeFrame(layer.frames, time)].image,
          config |-> layer.config, size |-> size,
          matrix |-> layerTransform(layer.config, size)]>>

RECURSIVE drawLayersTopFirst(_, _, _)
drawLayersTopFirst(layers, time, size) ==
  IF layers = <<>> THEN <<>>
  ELSE drawLayersTopFirst(Tail(layers), time, size) \o drawLayer(Head(layers), time, size)

RECURSIVE drawLayers(_, _, _)
drawLayers(layers, time, size) ==
  IF layers = <<>> THEN <<>>
  ELSE drawLayer(Head(layers), time, size) \o drawLayers(Tail(layers), time, size)

\* ---- preview of timelines ----
\* Delays (in ticks) of the frames of the timelines tried: 0 (an ANI rate of
\* 0), 100 ms, 150 ms and 250 ms.
RenderDelays == {0, 300, 450, 750}

DelaySeqs(D, n) == UNION {[1..k -> D] : k \in 0..n}

InputFrames(ds) ==
  [i \in 1..Len(ds) |->
     [image |-> [src |-> "t", n |-> i, width |-> 32, height |-> 32],
      delay |-> ds[i]]]

InitRender ==
  /\ activeType = "normal"
  /\ \E ds \in DelaySeqs(RenderDelays, MaxFrames) :
       cursorSet = [t \in CURSOR_TYPES |->
          IF t = "normal"
          THEN [DEFAULT_CURSOR_STATE EXCEPT
                  !.layers = <<[createBaseLayer EXCEPT !.frames = InputFrames(ds)]>>]
          ELSE DEFAULT_CURSOR_STATE]
  /\ selectedLayerId = "base"
  /\ isProcessing = FALSE
  /\ error = NoError
  /\ parseGIF = FALSE
  /\ nextId = 0
  /\ uploads = EmptyBag
  /\ canvas = NoCanvas
  /\ exp = NoExport

\* Time between two animation frames, in ticks.
TickInputs == {1, 50}

\* One turn of the preview loop (lines 379-385): the first turn sets
\* startTimeRef and draws at elapsed time 0, a later one draws dt later.
PreviewFrame(dt) ==
  /\ Mounted
  /\ LET t == IF canvas.started THEN canvas.time + dt ELSE 0 IN
     /\ t <= MaxTime
     /\ canvas' = [started |-> TRUE, time |-> t,
                   ops |-> drawLayers(activeData.layers, t, activeData.outputSize)]
  /\ UNCHANGED <<activeType, cursorSet, selectedLayerId, isProcessing, error,
                 parseGIF, nextId, uploads, exp>>

NextRender == \E dt \in TickInputs : PreviewFrame(dt)

SpecRender == InitRender /\ [][NextRender]_vars

\* Sum of the first k delays: the end boundary of frame k.
EndOf(frames, k) == SumDelay(SubSeq(frames, 1, k))

LayerById(layers, id) == layers[findIndex(layers, id)]

\* C1: for a timeline with two or more frames (and a non-zero total), the
\* frame drawn at elapsed time e is the first frame, in order, whose
\* cumulative end time strictly exceeds e mod totalDuration.
C1_ActiveFrameIsFirstPastRemainder ==
  \A k \in 1..Len(canvas.ops) :
    LET frames == LayerById(activeLayers, canvas.ops[k].layer).frames
        total == SumDelay(frames)
    IN (Len(frames) >= 2 /\ total > 0) =>
         \E f \in 1..Len(frames) :
            /\ EndOf(frames, f) > canvas.time % total
            /\ \A g \in 1..(f - 1) : EndOf(frames, g) <= canvas.time % total
            /\ canvas.ops[k].image = frames[f].image

\* The wrap of the example: durations 100, 150, 250 ms at t = 500 ms draw
\* frame 0 again.
C1_Witness ==
  /\ Len(canvas.ops) = 1
  /\ Len(activeLayers[1].frames) = 3
  /\ activeLayers[1].frames[1].delay = 300
  /\ activeLayers[1].frames[2].delay = 450
  /\ activeLayers[1].frames[3].delay = 750
  /\ canvas.time = 1500
  /\ canvas.ops[1].image.n = 1

\* ---- export (lines 405-526) ----
\* The scan of lines 412-420 from layer k on.
RECURSIVE scanMaster(_, _, _, _)
scanMaster(layers, k, maxFrames, masterLayer) ==
  IF k > Len(layers) THEN [maxFrames |-> maxFrames, masterLayer |-> masterLayer]
  ELSE IF Len(layers[k].frames) > maxFrames
       THEN scanMaster(layers, k + 1, Len(layers[k].frames), layers[k])
       ELSE scanMaster(layers, k + 1, maxFrames, masterLayer)

findMaster(layers) == scanMaster(layers, 1, 1, layers[1])

loopCountOf(format, maxFrames) == IF format = "ani" THEN maxFrames ELSE 1

\* Lines 427-430: the time at which frame i (0-based) is rendered.
RECURSIVE exportTime(_, _)
exportTime(masterLayer, i) ==
  IF Len(masterLayer.frames) = 0 \/ i = 0 THEN 0
  ELSE exportTime(masterLayer, i - 1)
       + masterLayer.frames[((i - 1) % Len(masterLayer.frames)) + 1].delay

\* Line 457: Math.max(1, Math.round(d / 16.666)) for d ms given in ticks;
\* round(q) = floor(q + 1/2) and d / 16.666 = 1000 * ticks / 49998.
exportRate(ticks) == Max(1, (2000 * ticks + 49998) \div 99996)

\* Line 456.
exportDelay(masterLayer, i) ==
  IF Len(masterLayer.frames) > 0
  THEN masterLayer.frames[(i % Len(masterLayer.frames)) + 1].delay
  ELSE DefaultExportDelayMs * TicksPerMs

\* DataView.setUint8 (lines 445-446): the value modulo 2^8.
setUint8(v) == v % 256

\* DataView.setUint16(offset, v, true) (lines 447-448): the value modulo 2^16
\* as two bytes, low byte first.
setUint16BigEndian(v) == <<((v % 65536) \div 256), (v % 65536) % 256>>

setUint16(v) == <<(v % 65536) % 256, (v % 65536) \div 256>>

\* DataView.getUint16(offset, true): what a reader of the directory decodes.
getUint16(b) == b[1] + 256 * b[2]

\* Lines 441-450: the cursor file wrapped around the PNG of one frame.
curBlob(png, outputSize, hotspot) ==
  [kind |-> "cur",
   width |-> setUint8(IF outputSize >= 256 THEN 0 ELSE outputSize),
   hotspotX |-> setUint16(hotspot.x), hotspotY |-> setUint16(hotspot.y),
   imageOffset |-> 22, png |-> png]

NoCallback == [stage |-> "none"]
NoFile == [format |-> "none"]

\* download(format) up to the first toBlob: the closure keeps activeData and
\* activeLayers of the render in which the button was clicked.
\* Every download() creates its own canvas and arrays (lines 406, 422-423), so
\* exports do not share a surface; one export at a time is followed.
ExportClick(format) ==
  /\ Mounted
  /\ exp.pc \in {"idle", "done"}
  /\ LET m == findMaster(activeLayers) IN
     exp' = [pc |-> "loop", format |-> format, type |-> activeType,
             layers |-> activeLayers, outputSize |-> activeData.outputSize,
             hotspot |-> activeData.hotspot,
             maxFrames |-> m.maxFrames, masterLayer |-> m.masterLayer,
             loopCount |-> loopCountOf(format, m.maxFrames),
             i |-> 0, surface |-> <<>>, callback |-> NoCallback,
             resolved |-> FALSE, frameBlobs |-> <<>>, rates |-> <<>>,
             encoded |-> <<>>, nulls |-> 0, out |-> NoFile]
  /\ UNCHANGED <<activeType, cursorSet, selectedLayerId, isProcessing, error,
                 parseGIF, nextId, uploads, canvas>>

\* Line 410: no 2d context; generateExportBlob returns undefined and
\* download returns at line 465.
ExportNoContext(format) ==
  /\ Mounted
  /\ exp.pc \in {"idle", "done"}
  /\ LET m == findMaster(activeLayers) IN
     exp' = [pc |-> "done", format |-> format, type |-> activeType,
             layers |-> activeLayers, outputSize |-> activeData.outputSize,
             hotspot |-> activeData.hotspot,
             maxFrames |-> m.maxFrames, masterLayer |-> m.masterLayer,
             loopCount |-> 0,
             i |-> 0, surface |-> <<>>, callback |-> NoCallback,
             resolved |-> FALSE, frameBlobs |-> <<>>, rates |-> <<>>,
             encoded |-> <<>>, nulls |-> 0, out |-> NoFile]
  /\ UNCHANGED <<activeType, cursorSet, selectedLayerId, isProcessing, error,
                 parseGIF, nextId, uploads, canvas>>

\* Lines 427-435: clear the surface, draw frame i, call canvas.toBlob (which
\* copies the bitmap) and suspend on the promise.
ExportRender ==
  /\ exp.pc = "loop"
  /\ LET time == exportTime(exp.masterLayer, exp.i)
         bitmap == drawLayers(exp.layers, time, exp.outputSize)
     IN exp' = [exp EXCEPT !.surface = bitmap,
                           !.callback = [stage |-> "toBlob", i |-> exp.i, bitmap |-> bitmap],
                           !.resolved = FALSE,
                           !.pc = "await"]
  /\ UNCHANGED <<activeType, cursorSet, selectedLayerId, isProcessing, error,
                 parseGIF, nextId, uploads, canvas>>

\* The toBlob callback (lines 435-437, 452-453): with a blob it suspends on
\* b.arrayBuffer(), with null it resolves the promise at once.
ToBlobCallback(b) ==
  /\ exp.pc # "idle"
  /\ exp.callback.stage = "toBlob"
  /\ IF b
     THEN exp' = [exp EXCEPT !.callback.stage = "arrayBuffer"]
     ELSE exp' = [exp EXCEPT !.callback = NoCallback, !.resolved = TRUE,
                             !.nulls = exp.nulls + 1]
  /\ UNCHANGED <<activeType, cursorSet, selectedLayerId, isProcessing, error,
                 parseGIF, nextId, uploads, canvas>>

\* Lines 437-453: the bytes arrive, the frame is pushed, the promise resolves.
\* `encoded` records the index i each pushed blob was made for.
ArrayBufferResolved ==
  /\ exp.pc # "idle"
  /\ exp.callback.stage = "arrayBuffer"
  /\ LET png == [kind |-> "png", pixels |-> exp.callback.bitmap]
         blob == IF exp.format = "png" /\ exp.callback.i = 0 THEN png
                 ELSE curBlob(png, exp.outputSize, exp.hotspot)
     IN exp' = [exp EXCEPT !.frameBlobs = Append(exp.frameBlobs, blob),
                           !.encoded = Append(exp.encoded, exp.callback.i),
                           !.callback = NoCallback, !.resolved = TRUE]
  /\ UNCHANGED <<activeType, cursorSet, selectedLayerId, isProcessing, error,
                 parseGIF, nextId, uploads, canvas>>

\* The `await` of line 435: the loop goes on once the promise has resolved.
awaitEncodeSkipped(e) == TRUE

awaitEncode(e) == e.resolved

\* Lines 456-458 and the loop test of line 426.
ExportPushRate ==
  /\ exp.pc = "await"
  /\ awaitEncode(exp)
  /\ exp' = [exp EXCEPT
        !.rates = Append(exp.rates, exportRate(exportDelay(exp.masterLayer, exp.i))),
        !.i = exp.i + 1,
        !.pc = IF exp.i + 1 < exp.loopCount THEN "loop" ELSE "return"]
  /\ UNCHANGED <<activeType, cursorSet, selectedLayerId, isProcessing, error,
                 parseGIF, nextId, uploads, canvas>>

\* Lines 471-479: the PNG is drawn afresh at time 0.
pngFile(e) ==
  [format |-> "png", pixels |-> drawLayers(e.layers, 0, e.outputSize)]

\* Lines 481-486: Blob([blobs[0]]); an undefined part is stringified.
curFile(e) ==
  [format |-> "cur",
   content |-> IF e.frameBlobs = <<>> THEN <<"undefined">> ELSE <<e.frameBlobs[1]>>]

\* Lines 488-525: anih (numFrames, numSteps), rate and LIST/fram chunks.
aniFile(e) ==
  [format |-> "ani", numFrames |-> Len(e.frameBlobs), numSteps |-> Len(e.frameBlobs),
   displayRate |-> 60, flags |-> 1, rate |-> e.rates, icons |-> e.frameBlobs]

\* download after generateExportBlob has returned (lines 465-525).
Download ==
  /\ exp.pc = "return"
  /\ exp' = [exp EXCEPT !.pc = "done",
                        !.out = IF exp.format = "png" THEN pngFile(exp)
                                ELSE IF exp.format = "cur" THEN curFile(exp)
                                ELSE aniFile(exp)]
  /\ UNCHANGED <<activeType, cursorSet, selectedLayerId, isProcessing, error,
                 parseGIF, nextId, uploads, canvas>>

\* Stacks offered to the export: up to MaxExportLayers layers, each with a
\* timeline of up to MaxFrames frames of 50 ms or 100 ms.
ExportDelays == {150, 300}

InputLayer(k, ds) ==
  [id |-> IF k = 1 THEN "base" ELSE ToString(k - 1),
   name |-> "in", frames |-> InputFrames(ds), config |-> DEFAULT_TRANSFORM,
   visible |-> TRUE, locked |-> FALSE, isBase |-> (k = 1)]

InitExport ==
  /\ activeType = "normal"
  /\ \E n \in 1..MaxExportLayers :
       \E dss \in [1..n -> DelaySeqs(ExportDelays, MaxFrames)] :
         cursorSet = [t \in CURSOR_TYPES |->
            IF t = "normal"
            THEN [DEFAULT_CURSOR_STATE EXCEPT
                    !.layers = [k \in 1..n |-> InputLayer(k, dss[k])]]
            ELSE DEFAULT_CURSOR_STATE]
  /\ selectedLayerId = "base"
  /\ isProcessing = FALSE
  /\ error = NoError
  /\ parseGIF = FALSE
  /\ nextId = 0
  /\ uploads = EmptyBag
  /\ canvas = NoCanvas
  /\ exp = NoExport

NextExport ==
  \/ \E f \in {"png", "cur", "ani"} : ExportClick(f)
  \/ \E f \in {"png", "cur", "ani"} : ExportNoContext(f)
  \/ ExportRender
  \/ \E b \in BOOLEAN : ToBlobCallback(b)
  \/ ArrayBufferResolved
  \/ ExportPushRate
  \/ Download

SpecExport == InitExport /\ [][NextExport]_vars

\* Uploads under the scheduling the browser guarantees: a continuation whose
\* promise has settled is eventually run.
SettleSome == \E u \in BagToSet(uploads) : handleUploadSettle(u)

FairUpload == SpecUpload /\ WF_vars(SettleSome)

\* ---- profile fields: hotspot and output size ----
\* `parseInt(e.target.value) || d` for a number the user typed: 0 (like NaN)
\* is falsy and yields d, every other integer passes as it is.
parseIntOr(v, d) == IF v = 0 THEN d ELSE v

\* Values typed into the number inputs.
HotspotInputs == {-1, 0, 500, 65536}
SizeInputs == {-5, 0, 48}
\* Canvas pixels the pointer can hit (lines 606-608).
ClickInputs == {7}

\* Lines 571-576: the Output Size input.
SetOutputSize(v) ==
  /\ Mounted
  /\ cursorSet' = updateCursorState(cursorSet, activeType,
                     [outputSize |-> parseIntOr(v, DefaultOutputSize)])
  /\ UNCHANGED <<activeType, selectedLayerId, isProcessing, error, parseGIF,
                 nextId, uploads, canvas, exp>>

\* Line 719: the hotspot X input.
SetHotspotX(v) ==
  /\ Mounted
  /\ cursorSet' = updateCursorState(cursorSet, activeType,
                     [hotspot |-> [activeData.hotspot EXCEPT !.x = parseIntOr(v, 0)]])
  /\ UNCHANGED <<activeType, selectedLayerId, isProcessing, error, parseGIF,
                 nextId, uploads, canvas, exp>>

\* Line 723: the hotspot Y input.
SetHotspotY(v) ==
  /\ Mounted
  /\ cursorSet' = updateCursorState(cursorSet, activeType,
                     [hotspot |-> [activeData.hotspot EXCEPT !.y = parseIntOr(v, 0)]])
  /\ UNCHANGED <<activeType, selectedLayerId, isProcessing, error, parseGIF,
                 nextId, uploads, canvas, exp>>

\* Lines 604-610: a click on the preview canvas at canvas pixel (x, y).
CanvasClick(x, y) ==
  /\ Mounted
  /\ cursorSet' = updateCursorState(cursorSet, activeType,
                     [hotspot |-> [x |-> x, y |-> y]])
  /\ UNCHANGED <<activeType, selectedLayerId, isProcessing, error, parseGIF,
                 nextId, uploads, canvas, exp>>

\* Hotspot and size edits followed by a CUR export of the profile.
NextHotspot ==
  \/ \E v \in SizeInputs : SetOutputSize(v)
  \/ \E v \in HotspotInputs : SetHotspotX(v)
  \/ \E v \in HotspotInputs : SetHotspotY(v)
  \/ \E x \in ClickInputs, y \in ClickInputs : CanvasClick(x, y)
  \/ ExportClick("cur")
  \/ ExportRender
  \/ \E b \in BOOLEAN : ToBlobCallback(b)
  \/ ArrayBufferResolved
  \/ ExportPushRate
  \/ Download

SpecHotspot == Init /\ [][NextHotspot]_vars

\* ---- export: frame count, cadence, encode failures ----
GreatestFrameCount(layers) ==
  LET S == {Len(layers[k].frames) : k \in 1..Len(layers)} \cup {1}
  IN CHOOSE m \in S : \A x \in S : x <= m

\* The layer with the greatest frame count, the first one among equals.
DominantLayer(layers) ==
  LET d == CHOOSE k \in 1..Len(layers) :
             /\ \A j \in 1..Len(layers) : Len(layers[j].frames) <= Len(layers[k].frames)
             /\ \A j \in 1..(k - 1) : Len(layers[j].frames) < Len(layers[k].frames)
  IN layers[d]

Emitted == exp.pc = "done" /\ exp.out # NoFile

\* C2: an ANI export produces exactly max(1, greatest frame count over the
\* layers) frames, and a CUR or PNG export exactly 1 frame.
C2_ExportFrameCount ==
  Emitted =>
    /\ exp.out.format = "ani" => Len(exp.out.icons) = GreatestFrameCount(exp.layers)
    /\ exp.out.format = "cur" => exp.out.content = <<curBlob(
           [kind |-> "png", pixels |-> drawLayers(exp.layers, 0, exp.outputSize)],
           exp.outputSize, exp.hotspot)>>
    /\ exp.out.format = "png" => exp.out.pixels = drawLayers(exp.layers, 0, exp.outputSize)

\* C3: the delay emitted for exported frame i is the frame-i delay of the
\* dominant layer, in 1/60 s units; with every layer empty one frame is
\* exported.
C3_DominantCadence ==
  (Emitted /\ exp.out.format = "ani") =>
    IF \E k \in 1..Len(exp.layers) : Len(exp.layers[k].frames) > 0
    THEN LET dom == DominantLayer(exp.layers) IN
         /\ Len(exp.out.rate) = Len(dom.frames)
         /\ \A i \in 1..Len(dom.frames) :
               exp.out.rate[i] = exportRate(dom.frames[i].delay)
    ELSE Len(exp.out.rate) = 1

\* C4: an export (ANI or CUR) in which the encode step yielded no bytes for
\* some frame emits no output file.
C4_EncodeFailureAborts ==
  (exp.pc = "done" /\ exp.format \in {"ani", "cur"} /\ exp.nulls > 0)
     => exp.out = NoFile

\* C5: in every emitted ANI the rate chunk has as many entries as the
\* LIST/fram chunk has icons, and both equal numFrames and numSteps.
C5_AniCountsAgree ==
  (Emitted /\ exp.out.format = "ani") =>
    /\ Len(exp.out.rate) = Len(exp.out.icons)
    /\ exp.out.numFrames = Len(exp.out.icons)
    /\ exp.out.numSteps = Len(exp.out.icons)

PixelsOf(blob) == IF blob.kind = "png" THEN blob.pixels ELSE blob.png.pixels

\* C6: the export is sequential: the surface is not cleared for the next
\* frame before the encode of the current one has completed and its bytes
\* were appended; the blobs are in increasing frame order and each holds
\* the pixels rendered for its own index.
C6_SequentialExport ==
  exp.pc \in {"loop", "await", "return", "done"} =>
    /\ exp.pc = "loop" =>
         /\ exp.callback = NoCallback
         /\ Len(exp.frameBlobs) + exp.nulls = exp.i
    /\ exp.callback # NoCallback =>
         /\ exp.callback.i = exp.i
         /\ exp.surface = exp.callback.bitmap
    /\ \A j \in 1..Len(exp.frameBlobs) :
         /\ PixelsOf(exp.frameBlobs[j]) =
              drawLayers(exp.layers, exportTime(exp.masterLayer, exp.encoded[j]),
                         exp.outputSize)
         /\ \A h \in 1..(j - 1) : exp.encoded[h] < exp.encoded[j]

\* Three frames exported in order, the second unlike the first.
C6_Witness ==
  /\ exp.pc = "done"
  /\ exp.format = "ani"
  /\ exp.encoded = <<0, 1, 2>>
  /\ PixelsOf(exp.frameBlobs[1]) # PixelsOf(exp.frameBlobs[2])

\* ---- layer stack invariants ----
\* C7: each profile's stack contains exactly one Base layer.
C7_ExactlyOneBase ==
  \A t \in CURSOR_TYPES :
     Cardinality({i \in 1..Len(cursorSet[t].layers) : cursorSet[t].layers[i].isBase}) = 1

\* C8: every profile's layer stack contains at least one layer.
C8_StackNeverEmpty ==
  \A t \in CURSOR_TYPES : Len(cursorSet[t].layers) >= 1

\* ---- uploads ----
\* C9: when an upload that targets an existing layer ends by reporting a
\* load failure, the layers of its profile are what they were before.
C9_FailedUploadLeavesLayer ==
  [][\A u \in BagToSet(uploads) :
       ( /\ uploads' = uploads (-) SetToBag({u})
         /\ u.replaceId # NoId
         /\ error' # NoError
         /\ error' # error )
       => cursorSet'[u.type].layers = cursorSet[u.type].layers]_vars

\* C10: every started upload finishes and the processing flag returns to
\* false.
C10_ProcessingEnds == isProcessing ~> ~isProcessing

\* ---- CUR files as bytes ----
MaxPngTail == 2

\* DataView.setUint32(offset, v, true) (line 449): four bytes, low byte first.
setUint32(v) ==
  setUint16(v % 65536) \o setUint16((v \div 65536) % 65536)

\* Lines 441-450: the 22 bytes of ICONDIR and ICONDIRENTRY, then the PNG.
curBytesHotspotAtTwo(png, outputSize, hotspot) ==
  LET w == IF outputSize >= 256 THEN 0 ELSE outputSize IN
  setUint16(0) \o setUint16(2) \o setUint16(1)
    \o <<setUint8(w), setUint8(w)>>
    \o setUint16(hotspot.x) \o setUint16(hotspot.y) \o <<setUint8(0), setUint8(0)>>
    \o setUint32(Len(png)) \o setUint32(22) \o png

curBytes(png, outputSize, hotspot) ==
  LET w == IF outputSize >= 256 THEN 0 ELSE outputSize IN
  setUint16(0) \o setUint16(2) \o setUint16(1)
    \o <<setUint8(w), setUint8(w), setUint8(0), setUint8(0)>>
    \o setUint16(hotspot.x) \o setUint16(hotspot.y)
    \o setUint32(Len(png)) \o setUint32(22) \o png

\* Lines 278-284: the first index i >= k (0-based) below length - 8 whose two
\* bytes are 0x89 0x50, or -1.
RECURSIVE scanPng(_, _)
scanPng(bytes, k) ==
  IF k >= Len(bytes) - 8 THEN -1
  ELSE IF bytes[k + 1] = 137 /\ bytes[k + 2] = 80 THEN k
       ELSE scanPng(bytes, k + 1)

slice(bytes, k) == SubSeq(bytes, k + 1, Len(bytes))

\* Lines 272-286: the blob the static loader hands to the image decoder.
staticBlob(bytes) ==
  IF Len(bytes) >= 4 /\ bytes[1] = 0 /\ bytes[2] = 0 /\ bytes[3] = 2 /\ bytes[4] = 0
  THEN LET k == scanPng(bytes, 0) IN
       IF k >= 0 THEN [type |-> "image/png", offset |-> k, bytes |-> slice(bytes, k)]
       ELSE [type |-> "image/x-icon", offset |-> 0, bytes |-> bytes]
  ELSE [type |-> "image/png", offset |-> 0, bytes |-> bytes]

\* PNG byte strings: the 8-byte signature and a tail of 1..MaxPngTail bytes.
PngSignature == <<137, 80, 78, 71, 13, 10, 26, 10>>
TailBytes == {0, 80, 137}
RECURSIVE ByteSeqs(_, _)
ByteSeqs(B, n) ==
  IF n = 0 THEN {<<>>}
  ELSE ByteSeqs(B, n - 1)
         \cup {Append(t, b) : t \in {u \in ByteSeqs(B, n - 1) : Len(u) = n - 1}, b \in B}
PngInputs == {PngSignature \o t : t \in ByteSeqs(TailBytes, MaxPngTail) \ {<<>>}}
CurHotspots == {[x |-> 0, y |-> 0], [x |-> 5, y |-> 7], [x |-> 500, y |-> 500],
                [x |-> 20617, y |-> 0], [x |-> 35072, y |-> 80]}
CurSizes == {32, 137, 256}

\* A PNG, a hotspot and a size; the export writes the CUR, the static loader
\* reads it back.
InitCur ==
  /\ activeType = "normal"
  /\ cursorSet = [t \in CURSOR_TYPES |-> DEFAULT_CURSOR_STATE]
  /\ selectedLayerId = "base"
  /\ isProcessing = FALSE
  /\ error = NoError
  /\ parseGIF = FALSE
  /\ nextId = 0
  /\ uploads = EmptyBag
  /\ canvas = NoCanvas
  /\ \E png \in PngInputs, h \in CurHotspots, sz \in CurSizes :
       exp = [pc |-> "png", png |-> png, hotspot |-> h, outputSize |-> sz]

EncodeCur ==
  /\ exp.pc = "png"
  /\ exp' = [pc |-> "cur", png |-> exp.png, hotspot |-> exp.hotspot,
             outputSize |-> exp.outputSize,
             file |-> curBytes(exp.png, exp.outputSize, exp.hotspot)]
  /\ UNCHANGED <<activeType, cursorSet, selectedLayerId, isProcessing, error,
                 parseGIF, nextId, uploads, canvas>>

LoadStatic ==
  /\ exp.pc = "cur"
  /\ exp' = [pc |-> "loaded", png |-> exp.png, hotspot |-> exp.hotspot,
             outputSize |-> exp.outputSize, file |-> exp.file,
             blob |-> staticBlob(exp.file)]
  /\ UNCHANGED <<activeType, cursorSet, selectedLayerId, isProcessing, error,
                 parseGIF, nextId, uploads, canvas>>

NextCur == EncodeCur \/ LoadStatic

SpecCur == InitCur /\ [][NextCur]_vars

\* ---- ANI rates through decode and export ----
\* Rate values of an ANI file, in 1/60 s.
RateInputs == {1, 6, 12, 12499, 12500}

\* Line 242 for a file with as many rates as icons: one frame per rate.
decodeRates(rates) ==
  [i \in 1..Len(rates) |-> [image |-> i, delay |-> aniDelay(rates[i])]]

\* Lines 426, 456-457 for a stack whose master layer holds these frames.
encodeRates(frames) ==
  [i \in 1..Len(frames) |->
     exportRate(exportDelay([frames |-> frames], i - 1))]

InitRate ==
  /\ activeType = "normal"
  /\ cursorSet = [t \in CURSOR_TYPES |-> DEFAULT_CURSOR_STATE]
  /\ selectedLayerId = "base"
  /\ isProcessing = FALSE
  /\ error = NoError
  /\ parseGIF = FALSE
  /\ nextId = 0
  /\ uploads = EmptyBag
  /\ canvas = NoCanvas
  /\ \E rates \in DelaySeqs(RateInputs, MaxFrames) \ {<<>>} :
       exp = [pc |-> "ani", rates |-> rates]

DecodeRates ==
  /\ exp.pc = "ani"
  /\ exp' = [pc |-> "frames", rates |-> exp.rates, frames |-> decodeRates(exp.rates)]
  /\ UNCHANGED <<activeType, cursorSet, selectedLayerId, isProcessing, error,
                 parseGIF, nextId, uploads, canvas>>

EncodeRates ==
  /\ exp.pc = "frames"
  /\ exp' = [pc |-> "exported", rates |-> exp.rates, frames |-> exp.frames,
             out |-> encodeRates(exp.frames)]
  /\ UNCHANGED <<activeType, cursorSet, selectedLayerId, isProcessing, error,
                 parseGIF, nextId, uploads, canvas>>

NextRate == DecodeRates \/ EncodeRates

SpecRate == InitRate /\ [][NextRate]_vars

\* ---- transform rows and the preview ----
PositionYInputs == {0, 10}
ScaleInputs == {1, 2}
RotationInputs == {0, 90, 180, -90}

\* Y Position row (lines 704, 1425).
SetPositionY(v) ==
  /\ Mounted
  /\ cursorSet' = updateLayer(cursorSet, activeType, selectedLayer.id,
        [config |-> [selectedLayer.config EXCEPT !.y = v]])
  /\ UNCHANGED <<activeType, selectedLayerId, isProcessing, error, parseGIF,
                 nextId, uploads, canvas, exp>>

\* Scale row (lines 705, 1426).
SetScale(v) ==
  /\ Mounted
  /\ cursorSet' = updateLayer(cursorSet, activeType, selectedLayer.id,
        [config |-> [selectedLayer.config EXCEPT !.scale = v]])
  /\ UNCHANGED <<activeType, selectedLayerId, isProcessing, error, parseGIF,
                 nextId, uploads, canvas, exp>>

\* Rotation row (lines 706, 1427).
SetRotation(v) ==
  /\ Mounted
  /\ cursorSet' = updateLayer(cursorSet, activeType, selectedLayer.id,
        [config |-> [selectedLayer.config EXCEPT !.rotation = v]])
  /\ UNCHANGED <<activeType, selectedLayerId, isProcessing, error, parseGIF,
                 nextId, uploads, canvas, exp>>

\* A profile of 32 or 64 pixels whose Base layer holds one 1x1 image.
InitTransform ==
  /\ activeType = "normal"
  /\ \E sz \in {32, 64} :
       cursorSet = [t \in CURSOR_TYPES |->
          IF t = "normal"
          THEN [DEFAULT_CURSOR_STATE EXCEPT
                  !.outputSize = sz,
                  !.layers = <<[createBaseLayer EXCEPT !.frames =
                      <<[image |-> [src |-> "pixel", n |-> 1, width |-> 1, height |-> 1],
                         delay |-> StaticDelayMs * TicksPerMs]>>]>>]
          ELSE DEFAULT_CURSOR_STATE]
  /\ selectedLayerId = "base"
  /\ isProcessing = FALSE
  /\ error = NoError
  /\ parseGIF = FALSE
  /\ nextId = 0
  /\ uploads = EmptyBag
  /\ canvas = NoCanvas
  /\ exp = NoExport

NextTransform ==
  \/ \E v \in PositionInputs : SetPosition(v)
  \/ \E v \in PositionYInputs : SetPositionY(v)
  \/ \E v \in ScaleInputs : SetScale(v)
  \/ \E v \in RotationInputs : SetRotation(v)
  \/ PreviewFrame(50)

SpecTransform == InitTransform /\ [][NextTransform]_vars

\* ---- lock and the transform rows ----
OpacityInputs == {0, 1}

\* Lock button of the properties panel (line 680).
ToggleLock ==
  /\ Mounted
  /\ cursorSet' = updateLayer(cursorSet, activeType, selectedLayer.id,
        [locked |-> ~selectedLayer.locked])
  /\ UNCHANGED <<activeType, selectedLayerId, isProcessing, error, parseGIF,
                 nextId, uploads, canvas, exp>>

\* X Position row of the properties panel (line 703), inside the block that
\* takes no pointer events while the layer is locked (line 689).
SetPositionGuarded(v) ==
  /\ Mounted
  /\ ~selectedLayer.locked
  /\ cursorSet' = updateLayer(cursorSet, activeType, selectedLayer.id,
        [config |-> [selectedLayer.config EXCEPT !.x = v]])
  /\ UNCHANGED <<activeType, selectedLayerId, isProcessing, error, parseGIF,
                 nextId, uploads, canvas, exp>>

\* Opacity row (lines 707, 1428).
SetOpacity(v) ==
  /\ Mounted
  /\ cursorSet' = updateLayer(cursorSet, activeType, selectedLayer.id,
        [config |-> [selectedLayer.config EXCEPT !.opacity = v]])
  /\ UNCHANGED <<activeType, selectedLayerId, isProcessing, error, parseGIF,
                 nextId, uploads, canvas, exp>>

\* The lock button, the transform rows of both panels and the preview, on a
\* profile whose Base layer holds one image.
NextLock ==
  \/ ToggleLock
  \/ \E v \in PositionInputs : SetPositionGuarded(v)
  \/ \E v \in PositionInputs : SetPosition(v)
  \/ \E v \in PositionYInputs : SetPositionY(v)
  \/ \E v \in ScaleInputs : SetScale(v)
  \/ \E v \in RotationInputs : SetRotation(v)
  \/ \E v \in OpacityInputs : SetOpacity(v)
  \/ PreviewFrame(500)

SpecLock == InitTransform /\ [][NextLock]_vars

\* ---- stacks under the preview ----
\* Stacks of up to MaxExportLayers layers with timelines of 0..MaxFrames
\* frames, the visibility buttons and the preview loop.
NextStack ==
  \/ \E i \in 1..MaxExportLayers : toggleLayerVisibility(i)
  \/ PreviewFrame(750)

SpecStack == InitExport /\ [][NextStack]_vars

\* ---- ANI files as bytes: the chunk walk (lines 208-234) ----
\* TextEncoder / TextDecoder on the four-character chunk names.
RIFF == <<82, 73, 70, 70>>
ACON == <<65, 67, 79, 78>>
anih == <<97, 110, 105, 104>>
rate == <<114, 97, 116, 101>>
LIST == <<76, 73, 83, 84>>
fram == <<102, 114, 97, 109>>
icon == <<105, 99, 111, 110>>

\* bytes.slice(a, b): clamped to the buffer.
sliceRange(bytes, a, b) ==
  SubSeq(bytes, a + 1, IF b < Len(bytes) THEN b ELSE Len(bytes))

\* DataView.getUint32(off, true); it throws a RangeError unless the four
\* bytes lie inside the buffer.
InView(bytes, off) == off >= 0 /\ off + 4 <= Len(bytes)

getUint32(bytes, off) ==
  bytes[off + 1] + 256 * bytes[off + 2] + 65536 * bytes[off + 3]
    + 16777216 * bytes[off + 4]

RangeError == [ok |-> FALSE, defaultRate |-> 0, rates |-> <<>>, iconChunks |-> <<>>]

\* Line 220: for (i = 0; i < size/4; i++) rates.push(getUint32(pos + i*4)).
RECURSIVE readRates(_, _, _, _, _)
readRates(bytes, pos, i, size, acc) ==
  IF ~acc.ok \/ 4 * i >= size THEN acc
  ELSE IF ~InView(bytes, pos + 4 * i) THEN RangeError
  ELSE readRates(bytes, pos, i + 1, size,
                 [acc EXCEPT !.rates = Append(acc.rates, getUint32(bytes, pos + 4 * i))])

\* Lines 223-230: the sub-chunks of a LIST/fram payload.
RECURSIVE walkFramNoPad(_, _, _, _)
walkFramNoPad(bytes, ip, end, acc) ==
  IF ~(ip < end - 8) THEN acc
  ELSE IF ~InView(bytes, ip + 4) THEN RangeError
  ELSE LET isz == getUint32(bytes, ip + 4)
           acc2 == IF sliceRange(bytes, ip, ip + 4) = icon
                   THEN [acc EXCEPT !.iconChunks =
                           Append(acc.iconChunks, sliceRange(bytes, ip + 8, ip + 8 + isz))]
                   ELSE acc
       IN walkFramNoPad(bytes, ip + 8 + isz, end, acc2)

RECURSIVE walkFram(_, _, _, _)
walkFram(bytes, ip, end, acc) ==
  IF ~(ip < end - 8) THEN acc
  ELSE IF ~InView(bytes, ip + 4) THEN RangeError
  ELSE LET isz == getUint32(bytes, ip + 4)
           acc2 == IF sliceRange(bytes, ip, ip + 4) = icon
                   THEN [acc EXCEPT !.iconChunks =
                           Append(acc.iconChunks, sliceRange(bytes, ip + 8, ip + 8 + isz))]
                   ELSE acc
       IN walkFram(bytes, ip + 8 + isz + (isz % 2), end, acc2)

\* Line 219 on a payload at pos of declared size.
readAnihOffset24(bytes, pos, acc) ==
  IF ~InView(bytes, pos + 24) THEN RangeError
  ELSE [acc EXCEPT !.defaultRate = getUint32(bytes, pos + 24)]

readAnih(bytes, pos, acc) ==
  IF ~InView(bytes, pos + 28) THEN RangeError
  ELSE [acc EXCEPT !.defaultRate = getUint32(bytes, pos + 28)]

\* Lines 215-233: the top-level chunks from pos on.
RECURSIVE walkChunks(_, _, _)
walkChunks(bytes, pos, acc) ==
  IF ~acc.ok \/ ~(pos < Len(bytes) - 8) THEN acc
  ELSE LET id == sliceRange(bytes, pos, pos + 4)
           size == getUint32(bytes, pos + 4)
           p == pos + 8
           acc2 == IF id = anih /\ size >= 36 THEN readAnih(bytes, p, acc)
                   ELSE IF id = rate THEN readRates(bytes, p, 0, size, acc)
                   ELSE IF id = LIST /\ sliceRange(bytes, p, p + 4) = fram
                   THEN walkFram(bytes, p + 4, p + size, acc)
                   ELSE acc
       IN walkChunks(bytes, p + size + (size % 2), acc2)

\* Lines 212-234: what parseAniFile has collected when the walk ends.
readAni(bytes) ==
  IF sliceRange(bytes, 0, 4) # RIFF
  THEN [ok |-> FALSE, defaultRate |-> 60, rates |-> <<>>, iconChunks |-> <<>>]
  ELSE walkChunks(bytes, 12,
         [ok |-> TRUE, defaultRate |-> 60, rates |-> <<>>, iconChunks |-> <<>>])

\* Line 238: the type given to the blob of an icon chunk.
iconBlobType(chunk) ==
  IF Len(chunk) >= 3 /\ chunk[1] = 0 /\ chunk[3] = 2 THEN "image/x-icon"
  ELSE "image/png"

\* Lines 236-243: one frame per collected chunk.
aniFrames(r) ==
  [i \in 1..Len(r.iconChunks) |->
     [image |-> [type |-> iconBlobType(r.iconChunks[i]), bytes |-> r.iconChunks[i]],
      delay |-> aniDelay(IF i <= Len(r.rates) THEN r.rates[i] ELSE r.defaultRate)]]

\* ---- ANI files offered to the decoder ----
MaxIcons == 2

RECURSIVE Concat(_)
Concat(ss) == IF ss = <<>> THEN <<>> ELSE Head(ss) \o Concat(Tail(ss))

\* A RIFF chunk: name, size of the payload, payload, pad byte after an odd
\* payload.
chunkOf(id, payload) ==
  id \o setUint32(Len(payload)) \o payload
     \o (IF Len(payload) % 2 = 1 THEN <<0>> ELSE <<>>)

\* An ANIHEADER of 36 bytes with the display rate at offset 28.
anihPayload(nFrames, displayRate) ==
  setUint32(36) \o setUint32(nFrames) \o setUint32(nFrames)
    \o setUint32(0) \o setUint32(0) \o setUint32(0) \o setUint32(0)
    \o setUint32(displayRate) \o setUint32(1)

\* The file with an anih chunk, optionally a chunk of another kind, a rate
\* chunk and a LIST/fram chunk with one icon sub-chunk per payload.
AniInput(d) ==
  LET body ==
        chunkOf(anih, anihPayload(Len(d.icons), d.defaultRate))
          \o (IF d.other THEN chunkOf(<<115, 101, 113, 32>>, <<0, 0, 0>>) ELSE <<>>)
          \o chunkOf(rate, Concat([i \in 1..Len(d.rates) |-> setUint32(d.rates[i])]))
          \o chunkOf(LIST, fram \o Concat([i \in 1..Len(d.icons) |->
                                              chunkOf(icon, d.icons[i])]))
  IN RIFF \o setUint32(4 + Len(body)) \o ACON \o body

IconPayloads == {<<137, 80, 78>>, <<0, 0, 2, 0>>}

AniDescriptions ==
  [defaultRate : {10, 60}, other : BOOLEAN,
   rates : DelaySeqs({6, 12}, MaxIcons),
   icons : DelaySeqs(IconPayloads, MaxIcons)]

InitAni ==
  /\ activeType = "normal"
  /\ cursorSet = [t \in CURSOR_TYPES |-> DEFAULT_CURSOR_STATE]
  /\ selectedLayerId = "base"
  /\ isProcessing = FALSE
  /\ error = NoError
  /\ parseGIF = FALSE
  /\ nextId = 0
  /\ uploads = EmptyBag
  /\ canvas = NoCanvas
  /\ \E d \in AniDescriptions :
       exp = [pc |-> "file", d |-> d, file |-> AniInput(d)]

\* parseAniFile on the file, every icon image loading.
DecodeAni ==
  /\ exp.pc = "file"
  /\ LET r == readAni(exp.file) IN
     exp' = [pc |-> "decoded", walk |-> r,
             frames |-> IF r.ok THEN aniFrames(r) ELSE <<>>] @@ exp
  /\ UNCHANGED <<activeType, cursorSet, selectedLayerId, isProcessing, error,
                 parseGIF, nextId, uploads, canvas>>

NextAni == DecodeAni

SpecAni == InitAni /\ [][NextAni]_vars

\* ---- ANI files as bytes: the writer (lines 488-521) ----
zeros(n) == [i \in 1..n |-> 0]

RECURSIVE SumLen(_)
SumLen(ss) == IF ss = <<>> THEN 0 ELSE Len(Head(ss)) + SumLen(Tail(ss))

\* Lines 490-496: the 44 bytes of the anih chunk.
anihChunk(blobs) ==
  anih \o setUint32(36)
       \o setUint32(36) \o setUint32(Len(blobs)) \o setUint32(Len(blobs))
       \o zeros(16) \o setUint32(60) \o setUint32(1)

\* Lines 498-502.
rateChunk(rates) ==
  rate \o setUint32(Len(rates) * 4)
       \o Concat([i \in 1..Len(rates) |-> setUint32(rates[i])])

\* Lines 507-508: new Uint8Array(8 + b.length + b.length % 2), the name, the
\* length and the blob; the last byte of an odd blob stays 0.
iconChunkPaddedSize(b) ==
  icon \o setUint32(Len(b) + (Len(b) % 2)) \o b \o zeros(Len(b) % 2)

iconChunk(b) ==
  icon \o setUint32(Len(b)) \o b \o zeros(Len(b) % 2)

\* Lines 504-517.
listChunk(blobs) ==
  LET ics == [i \in 1..Len(blobs) |-> iconChunk(blobs[i])]
      tot == SumLen(ics)
  IN LIST \o setUint32(4 + tot) \o fram \o Concat(ics)

\* Lines 519-522: the file.
aniBytes(blobs, rates) ==
  LET chunks == <<anihChunk(blobs), rateChunk(rates), listChunk(blobs)>>
      length == 8 + 4 + SumLen(chunks)
  IN RIFF \o setUint32(length - 8) \o ACON \o Concat(chunks)

\* Frame blobs handed to the writer: CUR files of an even and of an odd
\* length; rate lists as generateExportBlob makes them.
BlobInputs ==
  {curBytes(PngSignature \o t, 32, [x |-> 5, y |-> 7]) : t \in {<<0>>, <<0, 80>>}}

InitContainer ==
  /\ activeType = "normal"
  /\ cursorSet = [t \in CURSOR_TYPES |-> DEFAULT_CURSOR_STATE]
  /\ selectedLayerId = "base"
  /\ isProcessing = FALSE
  /\ error = NoError
  /\ parseGIF = FALSE
  /\ nextId = 0
  /\ uploads = EmptyBag
  /\ canvas = NoCanvas
  /\ \E blobs \in DelaySeqs(BlobInputs, MaxIcons), rates \in DelaySeqs({1, 6}, MaxIcons) :
       exp = [pc |-> "blobs", blobs |-> blobs, rates |-> rates]

WriteAni ==
  /\ exp.pc = "blobs"
  /\ exp' = [pc |-> "file", blobs |-> exp.blobs, rates |-> exp.rates,
             file |-> aniBytes(exp.blobs, exp.rates)]
  /\ UNCHANGED <<activeType, cursorSet, selectedLayerId, isProcessing, error,
                 parseGIF, nextId, uploads, canvas>>

NextContainer == WriteAni \/ DecodeAni

SpecContainer == InitContainer /\ [][NextContainer]_vars

\* ---- icon payloads: standalone files and ANI sub-chunks ----
\* A cursor file, the same bytes with the type word of an icon file, and a
\* bare PNG.
icoOf(cur) == [cur EXCEPT ![3] = 1]

IconInputs ==
  LET curs == {curBytes(png, 32, h) : png \in PngInputs, h \in CurHotspots} IN
  curs \cup {icoOf(c) : c \in curs} \cup PngInputs

InitIcon ==
  /\ activeType = "normal"
  /\ cursorSet = [t \in CURSOR_TYPES |-> DEFAULT_CURSOR_STATE]
  /\ selectedLayerId = "base"
  /\ isProcessing = FALSE
  /\ error = NoError
  /\ parseGIF = FALSE
  /\ nextId = 0
  /\ uploads = EmptyBag
  /\ canvas = NoCanvas
  /\ \E payload \in IconInputs, c \in {"file", "chunk"} :
       exp = [pc |-> "payload", payload |-> payload, container |-> c]

\* The payload uploaded as a .cur / .ico / .png file (lines 272-286).
LoadIconFile ==
  /\ exp.pc = "payload" /\ exp.container = "file"
  /\ exp' = [pc |-> "handed", payload |-> exp.payload, container |-> exp.container,
             blob |-> [type |-> staticBlob(exp.payload).type,
                       bytes |-> staticBlob(exp.payload).bytes]]
  /\ UNCHANGED <<activeType, cursorSet, selectedLayerId, isProcessing, error,
                 parseGIF, nextId, uploads, canvas>>

\* The payload as the icon sub-chunk of an uploaded .ani (lines 208-243).
LoadIconChunk ==
  /\ exp.pc = "payload" /\ exp.container = "chunk"
  /\ LET file == AniInput([defaultRate |-> 60, other |-> FALSE, rates |-> <<6>>,
                           icons |-> <<exp.payload>>])
         frames == aniFrames(readAni(file))
     IN exp' = [pc |-> "handed", payload |-> exp.payload,
                container |-> exp.container, blob |-> frames[1].image]
  /\ UNCHANGED <<activeType, cursorSet, selectedLayerId, isProcessing, error,
                 parseGIF, nextId, uploads, canvas>>

NextIcon == LoadIconFile \/ LoadIconChunk

SpecIcon == InitIcon /\ [][NextIcon]_vars

\* ---- ANI export of timelines with any stored delays ----
\* Delays a decoded frame can carry: 0 (an ANI rate of 0), 50 ms, 100 ms.
CadenceDelays == {0, 150, 300}

\* A Base layer with a timeline of 1..MaxFrames frames, alone or under an
\* overlay with one frame.
InitCadence ==
  /\ activeType = "normal"
  /\ \E ds \in DelaySeqs(CadenceDelays, MaxFrames) \ {<<>>}, n \in 1..2 :
       cursorSet = [t \in CURSOR_TYPES |->
          IF t = "normal"
          THEN [DEFAULT_CURSOR_STATE EXCEPT
                  !.layers = [k \in 1..n |->
                     InputLayer(k, IF k = 1 THEN ds ELSE <<300>>)]]
          ELSE DEFAULT_CURSOR_STATE]
  /\ selectedLayerId = "base"
  /\ isProcessing = FALSE
  /\ error = NoError
  /\ parseGIF = FALSE
  /\ nextId = 0
  /\ uploads = EmptyBag
  /\ canvas = NoCanvas
  /\ exp = NoExport

NextCadence ==
  \/ ExportClick("ani")
  \/ ExportRender
  \/ \E b \in BOOLEAN : ToBlobCallback(b)
  \/ ArrayBufferResolved
  \/ ExportPushRate
  \/ Download

SpecCadence == InitCadence /\ [][NextCadence]_vars

\* ---- uploads in flight across profile switches ----
SwitchFiles == {f \in Files : f.name = "a.png"}
ProfileHotspotInputs == {500}

\* The profile tabs (lines 553, 1329), the upload controls and the hotspot
\* input.
NextSwitch ==
  \/ \E t \in CURSOR_TYPES : SetActiveType(t)
  \/ \E f \in SwitchFiles : UploadAdd(f)
  \/ \E f \in SwitchFiles : UploadReplace(f)
  \/ \E u \in BagToSet(uploads) : handleUploadSettle(u)
  \/ \E v \in ProfileHotspotInputs : SetHotspotX(v)

SpecSwitch == Init /\ [][NextSwitch]_vars

\* ---- replace uploads and the profile fields ----
ProfileFiles == {f \in Files : f.name \in {"a.png", "c.ani"}}
ProfileSizeInputs == {64}

\* The replace control of the properties panel with the hotspot and output
\* size inputs, under either profile tab.
NextProfiles ==
  \/ \E t \in CURSOR_TYPES : SetActiveType(t)
  \/ \E f \in ProfileFiles : UploadReplace(f)
  \/ \E u \in BagToSet(uploads) : handleUploadSettle(u)
  \/ \E v \in ProfileHotspotInputs : SetHotspotX(v)
  \/ \E v \in ProfileSizeInputs : SetOutputSize(v)

SpecProfiles == Init /\ [][NextProfiles]_vars

\* C11 (as stated): whatever integer hotspot the profile held when the export
\* was clicked, the hotspot fields of the exported CUR decode to it.
C11_CurHotspotAnyInteger ==
  (exp.pc = "done" /\ exp.out.format = "cur" /\ exp.frameBlobs # <<>>) =>
     /\ getUint16(exp.out.content[1].hotspotX) = exp.hotspot.x
     /\ getUint16(exp.out.content[1].hotspotY) = exp.hotspot.y

\* The hotspot fields of the CUR written for an export that was clicked while
\* the profile held hotspot h.
CurHotspotInRange ==
  (exp.pc = "done" /\ exp.out.format = "cur" /\ exp.frameBlobs # <<>>
     /\ exp.hotspot.x \in 0..65535 /\ exp.hotspot.y \in 0..65535) =>
     /\ getUint16(exp.out.content[1].hotspotX) = exp.hotspot.x
     /\ getUint16(exp.out.content[1].hotspotY) = exp.hotspot.y

\* A hotspot edit stores the typed or clicked integers as they are.
HotspotStoredVerbatim ==
  /\ \A v \in HotspotInputs \ {0} :
       /\ SetHotspotX(v) =>
            activeData'.hotspot = [x |-> v, y |-> activeData.hotspot.y]
       /\ SetHotspotY(v) =>
            activeData'.hotspot = [x |-> activeData.hotspot.x, y |-> v]
  /\ \A x \in ClickInputs, y \in ClickInputs :
       CanvasClick(x, y) => activeData'.hotspot = [x |-> x, y |-> y]

\* C11 (amended): every hotspot edit stores the integers verbatim, with no
\* clamping to the canvas; and for a hotspot whose coordinates lie in
\* 0..65535 (such as (500,500) on a 32x32 profile) the hotspot fields of the
\* exported CUR decode to the same (x, y).
C11_HotspotNeverClamped ==
  [] CurHotspotInRange /\ [][HotspotStoredVerbatim]_vars

\* A 32x32 profile with hotspot (500,500) exported as CUR.
C11_Witness ==
  /\ exp.pc = "done" /\ exp.out.format = "cur" /\ exp.frameBlobs # <<>>
  /\ exp.outputSize = 32
  /\ exp.hotspot = [x |-> 500, y |-> 500]
  /\ getUint16(exp.out.content[1].hotspotX) = 500
  /\ getUint16(exp.out.content[1].hotspotY) = 500

\* C12: a PNG wrapped as CUR and read back by the static loader's signature
\* scan comes back as exactly the original PNG bytes, the scan stopping at
\* offset 22, and the directory's hotspot fields decode to the hotspot.
C12_CurRoundTrip ==
  exp.pc = "loaded" =>
     /\ exp.blob.offset = 22
     /\ exp.blob.bytes = exp.png
     /\ getUint16(SubSeq(exp.file, 11, 12)) = exp.hotspot.x
     /\ getUint16(SubSeq(exp.file, 13, 14)) = exp.hotspot.y

\* C13: a list of ANI rates decoded to delays rate * (1000/60) ms and encoded
\* again by the exporter's rate formula gives back exactly the original rate
\* of every frame.
C13_RateRoundTrip ==
  exp.pc = "exported" =>
     /\ \A i \in 1..Len(exp.rates) : exp.frames[i].delay = exp.rates[i] * 50
     /\ exp.out = exp.rates

\* ---- uploads in flight together ----
\* The step in which the continuation of upload u runs.
Settles(u) == uploads' = uploads (-) SetToBag({u})

\* The layers of u's profile after u replaced its target and nothing else.
OnlyTargetReplaced(u, frames) ==
  /\ Len(cursorSet'[u.type].layers) = Len(cursorSet[u.type].layers)
  /\ \A i \in 1..Len(cursorSet[u.type].layers) :
       cursorSet'[u.type].layers[i] =
          IF cursorSet[u.type].layers[i].id = u.replaceId
          THEN [cursorSet[u.type].layers[i] EXCEPT !.frames = frames,
                                                   !.name = u.file.name]
          ELSE cursorSet[u.type].layers[i]
  /\ \A t \in CURSOR_TYPES \ {u.type} : cursorSet'[t] = cursorSet[t]

\* C14 (as stated): whenever an upload onto a layer completes with decoded
\* frames, whatever else is in flight, its target holds the frames of its
\* file, every other layer is as before, and no other profile state changes.
C14_UploadsIndependent ==
  [][\A u \in BagToSet(uploads) :
       LET res == parseFile(u.file, u.gifPath) IN
       (Settles(u) /\ u.replaceId # NoId /\ res.kind = "frames") =>
          /\ OnlyTargetReplaced(u, res.frames)
          /\ cursorSet'[u.type].fileName = cursorSet[u.type].fileName
          /\ cursorSet'[u.type].outputSize = cursorSet[u.type].outputSize
          /\ cursorSet'[u.type].hotspot = cursorSet[u.type].hotspot]_vars

\* C14 (amended): whenever an upload onto a layer completes with decoded
\* frames, whatever else is in flight, its target holds the frames of its
\* file and every other layer is as before; the profile's fileName,
\* outputSize and hotspot change only when the target was the Base layer of
\* a profile without a file name when the upload started and the file has a
\* first frame, and then to the file's name, size and default hotspot.
C14_UploadsChangeOwnLayer ==
  [][\A u \in BagToSet(uploads) :
       LET res == parseFile(u.file, u.gifPath)
           first == u.isBase /\ u.noFileName /\ res.frames # <<>>
           d == Max(res.frames[1].image.width, res.frames[1].image.height)
           newSize == IF d <= 32 THEN 32 ELSE d
       IN
       (Settles(u) /\ u.replaceId # NoId /\ res.kind = "frames") =>
          /\ OnlyTargetReplaced(u, res.frames)
          /\ cursorSet'[u.type].fileName =
                IF first THEN u.file.name ELSE cursorSet[u.type].fileName
          /\ cursorSet'[u.type].outputSize =
                IF first THEN newSize ELSE cursorSet[u.type].outputSize
          /\ cursorSet'[u.type].hotspot =
                IF first THEN getDefaultHotspot(u.type, newSize)
                ELSE cursorSet[u.type].hotspot]_vars

\* An upload onto an overlay was started before the Base layer's upload
\* completed and is still being decoded after it: the Base layer holds its
\* file, the overlay upload still holds the empty file name it captured.
C14_Witness ==
  \E u \in BagToSet(uploads) :
     /\ u.replaceId \notin {NoId, "base"}
     /\ u.noFileName
     /\ cursorSet[u.type].fileName = "a.png"
     /\ \E i \in 1..Len(cursorSet[u.type].layers) :
          /\ cursorSet[u.type].layers[i].isBase
          /\ cursorSet[u.type].layers[i].name = "a.png"
          /\ Len(cursorSet[u.type].layers[i].frames) = 1

\* ---- transform order ----
\* The canvas point, in half pixels, where draw call op puts the centre of
\* its image.
SamplePoint(op) == applyTo(op.matrix, 0, 0)

ExampleTransform == [x |-> 10, y |-> 0, scale |-> 2, rotation |-> 90, opacity |-> 1]

\* C15 (as stated): the 1x1 layer with transform {x:10, y:0, scale:2,
\* rotation:90, opacity:1} on the 64x64 canvas is drawn with its sample point
\* at (center.x, center.y + 20).
C15_SampleAtRotatedOffset ==
  \A k \in 1..Len(canvas.ops) :
     (canvas.ops[k].config = ExampleTransform /\ canvas.ops[k].size = 64) =>
        SamplePoint(canvas.ops[k]) = [x |-> 64, y |-> 64 + 40]

\* C15 (amended): a layer's sample point is drawn at the canvas centre plus
\* its (x, y) position as it is, whatever its rotation and scale, which turn
\* and stretch the image about that point; the example is drawn at
\* (center.x + 10, center.y), a 2x2 square around it.
C15_SampleAtPlainOffset ==
  \A k \in 1..Len(canvas.ops) :
     LET op == canvas.ops[k] IN
     /\ SamplePoint(op) = [x |-> op.size + 2 * op.config.x,
                           y |-> op.size + 2 * op.config.y]
     /\ {applyTo(op.matrix, u, v) : u \in {-1, 1}, v \in {-1, 1}} =
          {[x |-> op.size + 2 * op.config.x + du * op.config.scale,
            y |-> op.size + 2 * op.config.y + dv * op.config.scale] :
              du \in {-1, 1}, dv \in {-1, 1}}
     /\ (op.config = ExampleTransform /\ op.size = 64) =>
           SamplePoint(op) = [x |-> 64 + 20, y |-> 64]

\* The example has been drawn.
C15_Witness ==
  /\ Len(canvas.ops) = 1
  /\ canvas.ops[1].config = ExampleTransform
  /\ canvas.ops[1].size = 64
  /\ canvas.ops[1].image.width = 1 /\ canvas.ops[1].image.height = 1
  /\ SamplePoint(canvas.ops[1]) = [x |-> 84, y |-> 64]

\* ---- frame durations ----
\* C16: every frame stored in a layer's timeline, whatever file it came
\* from, has a duration that is a whole number of milliseconds greater
\* than 0.
C16_DurationsWholePositive ==
  \A t \in CURSOR_TYPES :
     \A i \in 1..Len(cursorSet[t].layers) :
        \A k \in 1..Len(cursorSet[t].layers[i].frames) :
           /\ cursorSet[t].layers[i].frames[k].delay % TicksPerMs = 0
           /\ cursorSet[t].layers[i].frames[k].delay > 0

\* ---- output size ----
\* C17: the outputSize of every profile is a positive integer, whatever
\* output-size edits have been made.
C17_OutputSizePositive ==
  \A t \in CURSOR_TYPES : cursorSet[t].outputSize \in Nat \ {0}

\* ---- GIF uploads and the decoder script ----
\* C18: a layer filled from a .gif file holds the frames and delays the GIF
\* decoder gives for it, whenever the upload happened relative to the loading
\* of the decoder script; it never holds a single static frame of 100 ms.
C18_GifAlwaysDecoded ==
  \A t \in CURSOR_TYPES :
     \A i \in 1..Len(cursorSet[t].layers) :
        \A f \in {g \in Files : g.ext = "gif"} :
           cursorSet[t].layers[i].name = f.name =>
              /\ cursorSet[t].layers[i].frames = parseFile(f, TRUE).frames
              /\ cursorSet[t].layers[i].frames #
                   <<[image |-> Image(f, 1, f.picture),
                      delay |-> StaticDelayMs * TicksPerMs]>>

\* ---- selection after a removal ----
IdsOf(layers) == {layers[i].id : i \in 1..Len(layers)}

\* A step of removeLayer on the layer named by selectedLayerId.
RemovesSelected ==
  /\ activeType' = activeType
  /\ selectedLayerId \in IdsOf(activeLayers)
  /\ activeLayers' = removeLayerFilter(activeLayers, selectedLayerId)

\* C19: after removeLayer of the selected layer, the selected id is the id of
\* the first element of the resulting stack, a layer still present.
C19_SelectionFallsToFirst ==
  [][(RemovesSelected /\ activeLayers' # <<>>) =>
        /\ selectedLayerId' = activeLayers'[1].id
        /\ selectedLayerId' \in IdsOf(activeLayers')]_vars

\* ---- moving a layer ----
\* The stack after the layer at 1-based position i changed places with its
\* neighbour at position j.
Exchanged(layers, i, j) ==
  [k \in 1..Len(layers) |->
     IF k = i THEN layers[j] ELSE IF k = j THEN layers[i] ELSE layers[k]]

IsPermutation(s, t) ==
  /\ Len(s) = Len(t)
  /\ \E p \in [1..Len(s) -> 1..Len(s)] :
       /\ \A a, b \in 1..Len(s) : p[a] = p[b] => a = b
       /\ \A k \in 1..Len(s) : s[k] = t[p[k]]

\* What the claim says of moveLayer(id, direction) on a stack.
MovedAsClaimed(layers, id, direction, result) ==
  /\ \A i \in 1..Len(layers) :
       layers[i].id = id =>
          result = IF direction = "up" /\ i < Len(layers)
                   THEN Exchanged(layers, i, i + 1)
                   ELSE IF direction = "down" /\ i > 1
                   THEN Exchanged(layers, i, i - 1)
                   ELSE layers
  /\ id \notin IdsOf(layers) => result = layers
  /\ IsPermutation(result, layers)

\* moveLayer as a function, on every stack the editor reaches, for the ids
\* of the stack and an id that names no layer.
MoveLayerFunction ==
  \A id \in IdsOf(activeLayers) \cup {"unknown"} :
     \A d \in {"up", "down"} :
        MovedAsClaimed(activeLayers, id, d, moveLayerResult(activeLayers, id, d))

\* A click on a move button: the profile's stack becomes the moved stack and
\* nothing else of the profile changes.
MoveLayerStep ==
  \A d \in {"up", "down"} :
     MoveLayer(d) =>
        /\ MovedAsClaimed(activeLayers, selectedLayer.id, d, activeLayers')
        /\ cursorSet' = [cursorSet EXCEPT ![activeType].layers = activeLayers']

\* C20: moveLayer(id, up) exchanges the layer with its neighbour at index+1,
\* moveLayer(id, down) with its neighbour at index-1; at the boundary, or for
\* an id that names no layer, the stack is unchanged; the result is always a
\* permutation of the stack, every layer as it was.
C20_MoveLayerSwapsNeighbours ==
  [] MoveLayerFunction /\ [][MoveLayerStep]_vars

\* A move has happened: the Base layer, created first, is now second, below
\* an overlay that carries a position offset.
C20_Witness ==
  /\ Len(activeLayers) = 2
  /\ ~activeLayers[1].isBase
  /\ activeLayers[1].config.x = 10
  /\ activeLayers[2].isBase

\* ---- locked layers ----
\* A layer that is locked before and after a step keeps its transform.
LockedTransformKept ==
  \A t \in CURSOR_TYPES :
     \A i \in 1..Len(cursorSet[t].layers) :
        \A j \in 1..Len(cursorSet'[t].layers) :
           ( /\ cursorSet[t].layers[i].id = cursorSet'[t].layers[j].id
             /\ cursorSet[t].layers[i].locked
             /\ cursorSet'[t].layers[j].locked )
           => cursorSet'[t].layers[j].config = cursorSet[t].layers[i].config

\* A preview turn draws every locked layer that is visible and non-empty.
LockedStillDrawn ==
  PreviewFrame(500) =>
     \A i \in 1..Len(activeLayers) :
        ( /\ activeLayers[i].locked /\ activeLayers[i].visible
          /\ activeLayers[i].frames # <<>> )
        => \E k \in 1..Len(canvas'.ops) : canvas'.ops[k].layer = activeLayers[i].id

\* C21: while a layer is locked no transform edit, from any transform
\* control, changes its transform; the compositor still draws it when it is
\* visible and non-empty.
C21_LockedTransformFixed ==
  [][LockedTransformKept /\ LockedStillDrawn]_vars

\* ---- which layers a render draws ----
\* Positions of the layers of a stack that are visible and hold frames.
Drawable(layers) ==
  {i \in 1..Len(layers) : layers[i].visible /\ layers[i].frames # <<>>}

\* C22: a render draws exactly the layers that are visible and have a
\* non-empty timeline, each once, in stack order from the bottom (index 0)
\* to the top; the other layers contribute nothing.
C22_DrawsVisibleNonEmptyInOrder ==
  [][PreviewFrame(750) =>
       \E p \in [1..Len(canvas'.ops) -> 1..Len(activeLayers)] :
          /\ \A a, b \in 1..Len(canvas'.ops) : a < b => p[a] < p[b]
          /\ {p[k] : k \in 1..Len(canvas'.ops)} = Drawable(activeLayers)
          /\ \A k \in 1..Len(canvas'.ops) :
               canvas'.ops[k].layer = activeLayers[p[k]].id]_vars

\* A stack of two visible layers with frames, drawn bottom first.
C22_Witness ==
  /\ Len(activeLayers) = 2
  /\ Drawable(activeLayers) = {1, 2}
  /\ Len(canvas.ops) = 2
  /\ canvas.ops[1].layer = activeLayers[1].id
  /\ canvas.ops[2].layer = activeLayers[2].id

\* ---- ANI decoding ----
\* C23: decoding an ANI gives one frame per icon sub-chunk, in file order;
\* frame i lasts rates[i] * (1000/60) ms when the file has a rate entry i,
\* and defaultRate * (1000/60) ms otherwise, defaultRate being the value at
\* offset 28 of the anih payload.
C23_AniFramesAndDelays ==
  exp.pc = "decoded" =>
     /\ exp.walk.ok
     /\ Len(exp.frames) = Len(exp.d.icons)
     /\ \A i \in 1..Len(exp.frames) :
          /\ exp.frames[i].image.bytes = exp.d.icons[i]
          /\ exp.frames[i].delay * 60 =
                (IF i <= Len(exp.d.rates) THEN exp.d.rates[i]
                 ELSE exp.d.defaultRate) * 1000 * TicksPerMs

\* Two icons, one rate entry, display rate 10: the second frame takes the
\* default.
C23_Witness ==
  /\ exp.pc = "decoded"
  /\ exp.d.defaultRate = 10
  /\ exp.d.rates = <<6>>
  /\ Len(exp.d.icons) = 2
  /\ exp.frames[1].delay = 100 * TicksPerMs
  /\ exp.frames[2].delay = 500

\* ---- the ANI container ----
\* C24: in every emitted ANI each chunk's size field is the length of its
\* payload without padding, every odd payload is followed by exactly one
\* zero byte, and the RIFF size field is the length of the file minus 8.
C24_AniChunkLayout ==
  exp.pc \in {"file", "decoded"} /\ "blobs" \in DOMAIN exp =>
     exp.file =
        RIFF \o setUint32(Len(exp.file) - 8) \o ACON
          \o chunkOf(anih, anihPayload(Len(exp.blobs), 60))
          \o chunkOf(rate, Concat([i \in 1..Len(exp.rates) |-> setUint32(exp.rates[i])]))
          \o chunkOf(LIST, fram \o Concat([i \in 1..Len(exp.blobs) |->
                                              chunkOf(icon, exp.blobs[i])]))

\* A file written from an odd blob followed by an even one.
C24_Witness ==
  /\ exp.pc = "file" /\ "blobs" \in DOMAIN exp
  /\ Len(exp.blobs) = 2
  /\ Len(exp.blobs[1]) % 2 = 1
  /\ Len(exp.blobs[2]) % 2 = 0
  /\ Len(exp.rates) = 2

\* C29: the chunk walk of the decoder, run on a file the writer made from N
\* blobs and their rates, ends and has collected exactly the N blobs, byte
\* for byte and in order, and exactly the rates written.
C29_ContainerRoundTrip ==
  exp.pc = "decoded" /\ "blobs" \in DOMAIN exp =>
     /\ exp.walk.ok
     /\ exp.walk.iconChunks = exp.blobs
     /\ exp.walk.rates = exp.rates

\* Two blobs, the first of odd length, written, read back and found again.
C29_Witness ==
  /\ exp.pc = "decoded" /\ "blobs" \in DOMAIN exp
  /\ Len(exp.blobs) = 2
  /\ Len(exp.blobs[1]) % 2 = 1
  /\ exp.rates = <<6, 1>>
  /\ Len(exp.walk.iconChunks) = 2
  /\ exp.walk.rates = <<6, 1>>

\* ---- the CUR directory entry ----
\* The 16 bytes of the directory entry, which follow the 6 bytes of the
\* directory header.
DirectoryEntry(file) == SubSeq(file, 7, 22)

\* The little-endian uint16 at byte offset k of the entry.
EntryUint16(file, k) == getUint16(SubSeq(DirectoryEntry(file), k + 1, k + 2))

\* C25 (as stated): the directory entry carries hotspot-x as a little-endian
\* uint16 at byte offset 2 of the entry and hotspot-y at offset 4.
C25_HotspotAtEntryOffsets2And4 ==
  exp.pc \in {"cur", "loaded"} =>
     /\ EntryUint16(exp.file, 2) = exp.hotspot.x
     /\ EntryUint16(exp.file, 4) = exp.hotspot.y

\* C25 (amended): the directory entry carries hotspot-x as a little-endian
\* uint16 at byte offset 4 of the entry (offset 10 of the file) and
\* hotspot-y at offset 6 of the entry (offset 12 of the file); offsets 2 and
\* 3 of the entry are zero.
C25_HotspotAtEntryOffsets4And6 ==
  exp.pc \in {"cur", "loaded"} =>
     /\ EntryUint16(exp.file, 4) = exp.hotspot.x
     /\ EntryUint16(exp.file, 6) = exp.hotspot.y
     /\ EntryUint16(exp.file, 2) = 0
     /\ getUint16(SubSeq(exp.file, 11, 12)) = exp.hotspot.x
     /\ getUint16(SubSeq(exp.file, 13, 14)) = exp.hotspot.y

\* The CUR written for hotspot (5, 7).
C25_Witness ==
  /\ exp.pc = "cur"
  /\ exp.hotspot = [x |-> 5, y |-> 7]
  /\ DirectoryEntry(exp.file)[5] = 5 /\ DirectoryEntry(exp.file)[6] = 0
  /\ DirectoryEntry(exp.file)[7] = 7 /\ DirectoryEntry(exp.file)[8] = 0

\* ---- icon payloads ----
IsIconDirectory(p) ==
  Len(p) >= 4 /\ SubSeq(p, 1, 4) \in {<<0, 0, 1, 0>>, <<0, 0, 2, 0>>}

\* Offsets (0-based) at which the four bytes 89 50 4E 47 stand.
SignatureOffsets(p) ==
  {k \in 0..(Len(p) - 4) : SubSeq(p, k + 1, k + 4) = <<137, 80, 78, 71>>}

FirstOf(S) == CHOOSE k \in S : \A j \in S : k <= j

\* C26: a payload that begins 00 00 01 00 or 00 00 02 00, as a file or as an
\* icon sub-chunk of an ANI, is decoded from the first offset at which the
\* signature 89 50 4E 47 stands; a payload without that beginning is decoded
\* whole as a PNG.
C26_IconPayloadFromSignature ==
  exp.pc = "handed" =>
     IF IsIconDirectory(exp.payload) /\ SignatureOffsets(exp.payload) # {}
     THEN exp.blob.bytes = slice(exp.payload, FirstOf(SignatureOffsets(exp.payload)))
     ELSE exp.blob.bytes = exp.payload /\ exp.blob.type = "image/png"

\* ---- frames of the dominant layer in an ANI export ----
\* The draw calls of a bitmap that show layer id.
OpsOf(pixels, id) == {k \in 1..Len(pixels) : pixels[k].layer = id}

\* C27: in an ANI export, frame i is rendered at the sum of the dominant
\* layer's first i delays, the dominant layer shows its own frame i there,
\* and so every frame of the dominant layer is in the export exactly once,
\* in order.
C27_DominantFramesInOrder ==
  (Emitted /\ exp.out.format = "ani") =>
     LET dom == DominantLayer(exp.layers) IN
     /\ Len(exp.out.icons) = Len(dom.frames)
     /\ \A i \in 1..Len(dom.frames) :
          LET pixels == PixelsOf(exp.out.icons[i]) IN
          /\ pixels = drawLayers(exp.layers, EndOf(dom.frames, i - 1), exp.outputSize)
          /\ \A k \in OpsOf(pixels, dom.id) : pixels[k].image = dom.frames[i].image
          /\ OpsOf(pixels, dom.id) # {}

\* ---- uploads and edits across profile switches ----
\* A step that completes an upload: the upload leaves the set in flight.
Completes(u) == BagIn(u, uploads) /\ uploads' = uploads (-) SetToBag({u})

ProfilesChanged == {t \in CURSOR_TYPES : cursorSet'[t] # cursorSet[t]}

\* C28: an upload started while profile A is active changes only profile A,
\* also when another profile is active at the time its decode completes, and
\* every other edit changes only the profile that is active when it is made.
C28_OnlyOwnProfileChanges ==
  [][IF BagCardinality(uploads') < BagCardinality(uploads)
     THEN \E u \in BagToSet(uploads) : Completes(u) /\ ProfilesChanged \subseteq {u.type}
     ELSE ProfilesChanged \subseteq {activeType}]_vars

\* An upload started under one profile is still in flight, about to store its
\* frames, while another profile is active, and both profiles were edited.
C28_Witness ==
  /\ \E u \in BagToSet(uploads) :
        /\ u.type # activeType
        /\ parseFile(u.file, u.gifPath).kind = "frames"
        /\ u.replaceId # NoId
        /\ cursorSet[u.type].fileName # ""
  /\ activeData.hotspot.x = 500

\* ---- replace uploads and the profile's hotspot and output size ----
SizingOf(p) == [hotspot |-> p.hotspot, outputSize |-> p.outputSize]

\* The target of upload u, in the profile it was started under, is the Base.
TargetsBase(u) ==
  \E k \in 1..Len(cursorSet[u.type].layers) :
     /\ cursorSet[u.type].layers[k].id = u.replaceId
     /\ cursorSet[u.type].layers[k].isBase

\* The output size and hotspot the first Base upload gives a profile.
FirstUploadSizing(u) ==
  LET frames == parseFile(u.file, u.gifPath).frames
      d == Max(frames[1].image.width, frames[1].image.height)
      newSize == Max(32, d)
  IN [hotspot |-> IF u.type = "text"
                  THEN [x |-> newSize \div 2, y |-> newSize \div 2]
                  ELSE [x |-> 0, y |-> 0],
      outputSize |-> newSize]

\* C30: a completing upload changes its profile's hotspot or outputSize only
\* when it replaces the Base layer of a profile that has no file name at
\* that moment, and then to max(32, larger image dimension) and the role's
\* default hotspot; a profile that has a file name keeps the hotspot and
\* outputSize it has, however concurrent uploads interleave.
C30_SizingOnlyWithoutFileName ==
  [][\A u \in BagToSet(uploads) :
       (Completes(u) /\ SizingOf(cursorSet'[u.type]) # SizingOf(cursorSet[u.type]))
          => /\ u.replaceId # NoId
             /\ TargetsBase(u)
             /\ cursorSet[u.type].fileName = ""
             /\ SizingOf(cursorSet'[u.type]) = FirstUploadSizing(u)]_vars

====
